---- MODULE Spec2Model ----
(***************************************************************************)
(* Model of RegexGenerator (src/rust_advanced_string_generator/src/        *)
(* regex_generator.rs): construction and the generate operation, with the  *)
(* pattern scanner, quantifier parsing, escape/class sampling, groups,     *)
(* backreferences, the counter directive and the pool directive.           *)
(*                                                                         *)
(* Strings are sequences of one-character strings.  Option<T> is a         *)
(* sequence of length 0 (None) or 1 (Some).  The random source is a        *)
(* sequence of draws chosen nondeterministically for every call.           *)
(***************************************************************************)
EXTENDS Integers, Sequences, FiniteSets, TLC

\* ---------------------------------------------------------------- bounds
\* number of generate calls explored on one instance
MaxCalls ==
  5

\* number of generate calls explored on an instance whose pattern has no
\* counter, pool directive or group, so that no call changes the instance
MaxSamplingCalls ==
  3

\* number of distinct results one sampler draw can take
MaxDraw ==
  3

\* number of sampler draws available to one call
NDraws ==
  3

\* number of HashSet iteration orders explored for a character class
MaxRot ==
  2

\* longest pattern for which a second instance is explored with a set order
\* of its own
MaxTwinPattern ==
  4

\* ---------------------------------------------------------------- options
None ==
  <<>>

Some(x) ==
  <<x>>

\* ---------------------------------------------------------------- characters
\* the grave accent (code 96), which a TLA+ string literal cannot hold
Grave ==
  "grave"

Printable ==
  <<
    " ", "!", "\"", "#", "$", "%", "&", "'", "(", ")", "*", "+", ",", "-", ".", "/",
    "0", "1", "2", "3", "4", "5", "6", "7", "8", "9", ":", ";", "<", "=", ">", "?",
    "@", "A", "B", "C", "D", "E", "F", "G", "H", "I", "J", "K", "L", "M", "N", "O",
    "P", "Q", "R", "S", "T", "U", "V", "W", "X", "Y", "Z", "[", "\\", "]", "^", "_",
    Grave, "a", "b", "c", "d", "e", "f", "g", "h", "i", "j", "k", "l", "m", "n", "o",
    "p", "q", "r", "s", "t", "u", "v", "w", "x", "y", "z", "{", "|", "}", "~" >>

WordSet ==
  <<
    "A", "B", "C", "D", "E", "F", "G", "H", "I", "J", "K", "L", "M", "N", "O", "P",
    "Q", "R", "S", "T", "U", "V", "W", "X", "Y", "Z", "a", "b", "c", "d", "e", "f",
    "g", "h", "i", "j", "k", "l", "m", "n", "o", "p", "q", "r", "s", "t", "u", "v",
    "w", "x", "y", "z", "0", "1", "2", "3", "4", "5", "6", "7", "8", "9", "_" >>

\* SpaceSet with a letter in place of the carriage return
SpaceSet_with_letter ==
  <<
    " ", "\t", "\n", "x" >>

SpaceSet ==
  <<
    " ", "\t", "\n", "\r" >>

NonDigitSet ==
  <<
    "A", "B", "C", "D", "E", "F", "G", "H", "I", "J", "K", "L", "M", "N", "O", "P",
    "Q", "R", "S", "T", "U", "V", "W", "X", "Y", "Z", "a", "b", "c", "d", "e", "f",
    "g", "h", "i", "j", "k", "l", "m", "n", "o", "p", "q", "r", "s", "t", "u", "v",
    "w", "x", "y", "z", "!", "@", "#", "$", "%", "^", "&", "*", "(", ")" >>

NonWordSet ==
  <<
    "!", "@", "#", "$", "%", "^", "&", "*", "(", ")", "+", "=", "-", "[", "]", "{",
    "}", "|", ";", ":", ",", ".", "<", ">", "?", "/", Grave, "~" >>

NonSpaceSet ==
  <<
    "A", "B", "C", "D", "E", "F", "G", "H", "I", "J", "K", "L", "M", "N", "O", "P",
    "Q", "R", "S", "T", "U", "V", "W", "X", "Y", "Z", "a", "b", "c", "d", "e", "f",
    "g", "h", "i", "j", "k", "l", "m", "n", "o", "p", "q", "r", "s", "t", "u", "v",
    "w", "x", "y", "z", "0", "1", "2", "3", "4", "5", "6", "7", "8", "9", "!", "@",
    "#", "$", "%", "^", "&", "*", "(", ")" >>

Digits ==
  <<"0", "1", "2", "3", "4", "5", "6", "7", "8", "9">>

\* char::is_digit(10) / char::is_numeric on the ASCII range
is_digit(c) ==
  \E k \in 1..10 : Digits[k] = c

DigitVal(c) ==
  (CHOOSE k \in 1..10 : Digits[k] = c) - 1

\* character code of a printable ASCII character
Code(c) ==
  31 + (CHOOSE k \in 1..Len(Printable) : Printable[k] = c)

\* CharRange running one character past range_end
CharRange_past_end(a, b) ==
  {Printable[k - 31] : k \in Code(a)..(IF Code(b) < 126 THEN Code(b) + 1 ELSE 126)}

\* the characters of the inclusive range start..=range_end
CharRange(a, b) ==
  {Printable[k - 31] : k \in Code(a)..Code(b)}

\* ---------------------------------------------------------------- strings
RECURSIVE Repeat(_, _)
Repeat(s, n) ==
  IF n <= 0 THEN <<>> ELSE s \o Repeat(s, n - 1)

\* index of the first occurrence of c in s at or after from, 0 if none
IndexFrom(s, c, from) ==
  IF \E k \in from..Len(s) : s[k] = c
  THEN CHOOSE k \in from..Len(s) : s[k] = c /\ \A j \in from..(k - 1) : s[j] # c
  ELSE 0

Contains(s, c) ==
  \E k \in 1..Len(s) : s[k] = c

\* the pieces of s between the separators c (str::split)
RECURSIVE Split(_, _)
Split(s, c) ==
  LET k == IndexFrom(s, c, 1)
  IN  IF k = 0 THEN <<s>>
      ELSE <<SubSeq(s, 1, k - 1)>> \o Split(SubSeq(s, k + 1, Len(s)), c)

RECURSIVE DecVal(_)
DecVal(s) ==
  IF s = <<>> THEN 0
  ELSE 10 * DecVal(SubSeq(s, 1, Len(s) - 1)) + DigitVal(s[Len(s)])

RECURSIVE StripZeros(_)
StripZeros(s) ==
  IF Len(s) > 1 /\ s[1] = "0" THEN StripZeros(Tail(s)) ELSE s

\* str::parse::<usize>: an optional plus sign, then one or more decimal digits
parse_usize(s) ==
  LET body == IF s # <<>> /\ s[1] = "+" THEN Tail(s) ELSE s
  IN  IF body # <<>> /\ \A k \in 1..Len(body) : is_digit(body[k])
      THEN Some(DecVal(body))
      ELSE None

I32MaxDigits ==
  <<"2", "1", "4", "7", "4", "8", "3", "6", "4", "7">>

I32MinDigits ==
  <<"2", "1", "4", "7", "4", "8", "3", "6", "4", "8">>

\* a <= b for two digit strings of the same length
DigitsLeq(a, b) ==
  \/ a = b
  \/ \E k \in 1..Len(a) :
       /\ \A j \in 1..(k - 1) : a[j] = b[j]
       /\ DigitVal(a[k]) < DigitVal(b[k])

\* str::parse::<i32> of a run of decimal digits: Err when the run is empty
\* or its value exceeds i32::MAX
parse_i32(s) ==
  IF s = <<>> THEN None
  ELSE LET z == StripZeros(s)
       IN  IF Len(z) < 10 \/ (Len(z) = 10 /\ DigitsLeq(z, I32MaxDigits))
           THEN Some(DecVal(z))
           ELSE None

\* decimal rendering of a natural number (Display for integers)
RECURSIVE to_string(_)
to_string(n) ==
  IF n < 10 THEN <<Digits[n + 1]>>
  ELSE to_string(n \div 10) \o <<Digits[(n % 10) + 1]>>

\* format!("{:0width$}", n): sign, then zeros up to width, then magnitude;
\* a rendering longer than width is not truncated
format_padded(neg, mag, width) ==
  LET sign == IF neg THEN <<"-">> ELSE <<>>
  IN  sign \o Repeat(<<"0">>, width - Len(sign) - Len(mag)) \o mag

\* ---------------------------------------------------------------- sampler
\* rng.gen_range(0..n) for n > 0 when the random source yields draw d: even
\* draws index from the low end of the range, odd draws from the high end
gen_index(n, d) ==
  IF d % 2 = 0 THEN (d \div 2) % n ELSE n - 1 - ((d \div 2) % n)

\* the draw the random source yields after nd earlier draws of this call;
\* a call that takes more draws than rnd holds sees them again from the start
Draw(rnd, nd) ==
  rnd[(nd % Len(rnd)) + 1]

RECURSIVE Pow10(_)
Pow10(n) ==
  IF n = 0 THEN 1 ELSE 10 * Pow10(n - 1)

\* ---------------------------------------------------------------- quantifier
NoRepeat ==
  [min |-> 1, max |-> None, leading_zeros_spec |-> None]

check_repeat_spec(p, i) ==
  IF i <= Len(p) /\ p[i] = "{"
  THEN LET close == IndexFrom(p, "}", i + 1)
           stop == IF close = 0 THEN Len(p) + 1 ELSE close
           next == IF close = 0 THEN Len(p) + 1 ELSE close + 1
           spec == SubSeq(p, i + 1, stop - 1)
           colon_pos == IndexFrom(spec, ":", 1)
       IN  IF colon_pos # 0
           THEN LET num_len == parse_usize(SubSeq(spec, 1, colon_pos - 1))
                    total_len == parse_usize(SubSeq(spec, colon_pos + 1, Len(spec)))
                IN  IF num_len = None \/ total_len = None
                    THEN [i |-> next, spec |-> None, panic |-> FALSE]
                    ELSE [i |-> next, panic |-> FALSE,
                          spec |-> Some([min |-> 1, max |-> None,
                                         leading_zeros_spec |->
                                           Some(<<num_len[1], total_len[1]>>)])]
           ELSE LET parts == Split(spec, ",")
                    lo == parse_usize(parts[1])
                IN  IF Len(parts) = 1
                    THEN IF lo = None
                         THEN [i |-> next, spec |-> None, panic |-> TRUE]
                         ELSE [i |-> next, panic |-> FALSE,
                               spec |-> Some([min |-> lo[1], max |-> None,
                                              leading_zeros_spec |-> None])]
                    ELSE IF Len(parts) = 2
                         THEN LET hi == parse_usize(parts[2])
                              IN  IF lo = None \/ hi = None
                                  THEN [i |-> next, spec |-> None, panic |-> TRUE]
                                  ELSE [i |-> next, panic |-> FALSE,
                                        spec |-> Some([min |-> lo[1], max |-> hi,
                                                       leading_zeros_spec |-> None])]
                         ELSE [i |-> next, spec |-> None, panic |-> FALSE]
  ELSE [i |-> i, spec |-> None, panic |-> FALSE]

\* repeat_count drawing from a range one longer than min..=max
repeat_count_past_max(spec, rnd, nd) ==
  IF spec.max # None
  THEN IF spec.min > spec.max[1]
       THEN [panic |-> TRUE, n |-> 0, nd |-> nd]
       ELSE [panic |-> FALSE, nd |-> nd + 1,
             n |-> spec.min + gen_index(spec.max[1] - spec.min + 2, Draw(rnd, nd))]
  ELSE [panic |-> FALSE, n |-> spec.min, nd |-> nd]

\* the repeat count chosen at the top of handle_repeat and handle_bracket;
\* gen_range panics on the empty range min..=max
repeat_count(spec, rnd, nd) ==
  IF spec.max # None
  THEN IF spec.min > spec.max[1]
       THEN [panic |-> TRUE, n |-> 0, nd |-> nd]
       ELSE [panic |-> FALSE, nd |-> nd + 1,
             n |-> spec.min + gen_index(spec.max[1] - spec.min + 1, Draw(rnd, nd))]
  ELSE [panic |-> FALSE, n |-> spec.min, nd |-> nd]

\* lower_bound admitting numbers with fewer digits
lower_bound_zero(num_len) ==
  0

\* 10_usize.pow((num_len - 1) as u32), the smallest num_len-digit number
lower_bound(num_len) ==
  Pow10(num_len - 1)

\* the numeric-width form {num_len:total_len}; num_len - 1 underflows for
\* num_len = 0: a panic with overflow checks, else the range 0..1
leading_zeros(lz, rnd, nd, checked) ==
  LET num_len == lz[1]
      total_len == lz[2]
  IN  IF num_len = 0
      THEN IF checked
           THEN [panic |-> TRUE, s |-> <<>>, nd |-> nd]
           ELSE [panic |-> FALSE, nd |-> nd + 1,
                 s |-> format_padded(FALSE, to_string(0), total_len)]
      ELSE LET lo == lower_bound(num_len)
               hi == Pow10(num_len)
               number == lo + gen_index(hi - lo, Draw(rnd, nd))
           IN  [panic |-> FALSE, nd |-> nd + 1,
                s |-> format_padded(FALSE, to_string(number), total_len)]

\* ---------------------------------------------------------------- escapes
sample(set, d) ==
  <<set[gen_index(Len(set), d) + 1]>>

handle_escape(ch, d) ==
  CASE ch = "d" -> [s |-> to_string(gen_index(10, d)), used |-> 1]
    [] ch = "w" -> [s |-> sample(WordSet, d), used |-> 1]
    [] ch = "s" -> [s |-> sample(SpaceSet, d), used |-> 1]
    [] ch = "D" -> [s |-> sample(NonDigitSet, d), used |-> 1]
    [] ch = "W" -> [s |-> sample(NonWordSet, d), used |-> 1]
    [] ch = "S" -> [s |-> sample(NonSpaceSet, d), used |-> 1]
    [] ch = "t" -> [s |-> <<"\t">>, used |-> 0]
    [] ch = "n" -> [s |-> <<"\n">>, used |-> 0]
    [] OTHER -> [s |-> <<ch>>, used |-> 0]

\* iter::repeat(self.handle_escape(ch)).take(repeat_count): handle_escape is
\* evaluated once and its value is repeated
handle_repeat(ch, spec, rnd, nd, checked) ==
  LET rc == repeat_count(spec, rnd, nd)
  IN  IF rc.panic THEN [panic |-> TRUE, s |-> <<>>, nd |-> nd]
      ELSE IF spec.leading_zeros_spec # None
      THEN leading_zeros(spec.leading_zeros_spec[1], rnd, rc.nd, checked)
      ELSE LET e == handle_escape(ch, Draw(rnd, rc.nd))
           IN  [panic |-> FALSE, s |-> Repeat(e.s, rc.n), nd |-> rc.nd + e.used]

\* ---------------------------------------------------------------- classes
RECURSIVE class_body(_, _, _, _)
class_body(p, i, char_class, range_start) ==
  IF i > Len(p) THEN [i |-> i, char_class |-> char_class]
  ELSE IF p[i] = "]" THEN [i |-> i + 1, char_class |-> char_class]
  ELSE IF p[i] = "-" /\ range_start # None
  THEN IF i + 1 <= Len(p)
       THEN class_body(p, i + 2,
                       char_class \cup CharRange(range_start[1], p[i + 1]), None)
       ELSE class_body(p, i + 1, char_class, range_start)
  ELSE class_body(p, i + 1, char_class \cup {p[i]}, Some(p[i]))

extract_char_class(p, i) ==
  LET negate == i <= Len(p) /\ p[i] = "^"
      body == class_body(p, IF negate THEN i + 1 ELSE i, {}, None)
  IN  [i |-> body.i, char_class |-> body.char_class, negate |-> negate]

\* (32..127) as characters
FullSet ==
  {Printable[k] : k \in 1..Len(Printable)}

\* effective_set with the negation marker ignored
effective_set_ignoring_negate(char_class, negate) ==
  char_class

\* the alphabet a class samples from: the complement within the full set
\* when the class is negated, the declared set otherwise
effective_set(char_class, negate) ==
  IF negate THEN FullSet \ char_class ELSE char_class

\* the Vec collected from a HashSet: the iteration order is not specified;
\* the orders explored are the rotations of the code order
set_order(S, rot) ==
  LET sorted == SelectSeq(Printable, LAMBDA c : c \in S)
      n == Len(sorted)
  IN  [k \in 1..n |-> sorted[((k - 1 + rot) % n) + 1]]

handle_bracket(char_class, spec, negate, rnd, nd, rot, checked) ==
  LET rc == repeat_count(spec, rnd, nd)
  IN  IF rc.panic THEN [panic |-> TRUE, s |-> <<>>, nd |-> nd]
      ELSE IF spec.leading_zeros_spec # None
      THEN leading_zeros(spec.leading_zeros_spec[1], rnd, rc.nd, checked)
      ELSE LET sample_set == set_order(effective_set(char_class, negate), rot)
           IN  IF rc.n > 0 /\ Len(sample_set) = 0
               THEN [panic |-> TRUE, s |-> <<>>, nd |-> rc.nd]
               ELSE [panic |-> FALSE, nd |-> rc.nd + rc.n,
                     s |-> [k \in 1..rc.n |->
                              sample_set[gen_index(Len(sample_set),
                                                   Draw(rnd, rc.nd + k - 1)) + 1]]]

\* ---------------------------------------------------------------- counter
\* the prefix / digit-run split at the top of increment_string: prefix is the
\* leading run of non-digits, digits the first run of digits
split_value(value) ==
  LET digit_at == {k \in 1..Len(value) : is_digit(value[k])}
      first == IF digit_at = {} THEN Len(value) + 1
               ELSE CHOOSE k \in digit_at : \A j \in digit_at : k <= j
      after == {k \in first..Len(value) : ~is_digit(value[k])}
      last == IF after = {} THEN Len(value)
              ELSE (CHOOSE k \in after : \A j \in after : k <= j) - 1
  IN  [prefix |-> SubSeq(value, 1, first - 1), digits |-> SubSeq(value, first, last)]

\* adjust with the direction ignored: every step counts upward
adjust_ascending_only(num, direction) ==
  num + 1

\* num + self.direction
adjust(num, direction) ==
  num + direction

\* render with the explicit width ignored
render_unpadded(neg, mag, total_len) ==
  format_padded(neg, mag, 0)

\* the rendering of the adjusted number: zero-padded to total_len when one
\* is given, plain otherwise
render(neg, mag, total_len) ==
  IF total_len # None
  THEN format_padded(neg, mag, total_len[1])
  ELSE format_padded(neg, mag, 0)

\* num + self.direction on i32: i32::MAX + 1 panics with overflow checks and
\* wraps to i32::MIN without them
increment_string(value, total_len, direction, checked) ==
  LET parts == split_value(value)
      num == parse_i32(parts.digits)
  IN  IF num = None THEN [panic |-> FALSE, s |-> parts.prefix \o parts.digits]
      ELSE IF StripZeros(parts.digits) = I32MaxDigits /\ direction = 1
      THEN IF checked
           THEN [panic |-> TRUE, s |-> <<>>]
           ELSE [panic |-> FALSE,
                 s |-> parts.prefix \o render(TRUE, I32MinDigits, total_len)]
      ELSE LET adjusted_num == adjust(num[1], direction)
               mag == IF adjusted_num < 0 THEN 0 - adjusted_num ELSE adjusted_num
           IN  [panic |-> FALSE,
                s |-> parts.prefix \o render(adjusted_num < 0, to_string(mag), total_len)]

\* ---------------------------------------------------------------- scanner
\* The scan state of one generate call: i is the position of the next
\* character chars.next() yields, nd the number of draws taken so far, and
\* groups, increment_value, direction, array_index are the fields of self.

MapInsert(m, k, v) ==
  [x \in (DOMAIN m) \cup {k} |-> IF x = k THEN v ELSE m[x]]

Peek(p, i) ==
  IF i <= Len(p) THEN Some(p[i]) ELSE None

counter_sign(p, i) ==
  IF Peek(p, i) = Some("+") THEN 1
  ELSE IF Peek(p, i) = Some("-") THEN -1
  ELSE 1

\* width_spec that leaves the suffix in the pattern
width_spec_unconsumed(p, i) ==
  [i |-> i, total_len |-> None]

\* the {:total_len} suffix of \i: only the numeric characters before the
\* closing brace are kept
width_spec(p, i) ==
  IF Peek(p, i) = Some("{")
  THEN LET close == IndexFrom(p, "}", i + 1)
           stop == IF close = 0 THEN Len(p) + 1 ELSE close
           body == SubSeq(p, i + 1, stop - 1)
           spec == SelectSeq(body, LAMBDA c : c # ":" /\ is_digit(c))
       IN  [i |-> IF close = 0 THEN Len(p) + 1 ELSE close + 1,
            total_len |-> parse_usize(spec)]
  ELSE [i |-> i, total_len |-> None]

counter_directive(p, st, checked) ==
  LET sign == counter_sign(p, st.i)
      i1 == IF Peek(p, st.i) \in {Some("+"), Some("-")} THEN st.i + 1 ELSE st.i
      w == width_spec(p, i1)
      s1 == [st EXCEPT !.i = w.i, !.direction = sign]
  IN  IF st.increment_value # None
      THEN LET r == increment_string(st.increment_value[1], w.total_len,
                                     s1.direction, checked)
           IN  IF r.panic
               THEN [s1 EXCEPT !.increment_value = None, !.panicked = TRUE]
               ELSE [s1 EXCEPT !.result = @ \o r.s, !.increment_value = Some(r.s)]
      ELSE [s1 EXCEPT !.result = @ \o <<"0">>]

\* asc_index starting one element late
asc_index_off_by_one(array_index, len) ==
  (array_index + 1) % len

asc_index(array_index, len) ==
  array_index % len

\* desc_index walking the pool from the front
desc_index_from_front(array_index, len) ==
  array_index % len

desc_index(array_index, len) ==
  len - 1 - (array_index % len)

\* cursor_after advancing the cursor on the random access too
cursor_after_any_access(array_index, array_sign) ==
  array_index + 1

\* self.array_index after an access: advanced by the two ordered accesses,
\* untouched by the random one
cursor_after(array_index, array_sign) ==
  IF array_sign = 0 THEN array_index ELSE array_index + 1

\* pool_sign that never recognises a sign
pool_sign_always_random(p, i) ==
  0

\* the sign after \a: 1 ascending, -1 descending, 0 random (no sign)
pool_sign(p, i) ==
  IF Peek(p, i) = Some("+") THEN 1
  ELSE IF Peek(p, i) = Some("-") THEN -1
  ELSE 0

\* indexing an empty pool panics in all three branches (remainder by zero,
\* empty sampling range)
pool_directive(p, st, array_values, rnd) ==
  LET array_sign == pool_sign(p, st.i)
      s1 == [st EXCEPT !.i = IF array_sign = 0 THEN @ ELSE @ + 1]
  IN  IF array_values = None THEN s1
      ELSE LET array == array_values[1]
               len == Len(array)
           IN  IF len = 0 THEN [s1 EXCEPT !.panicked = TRUE]
               ELSE IF array_sign = 1
               THEN [s1 EXCEPT !.result = @ \o array[asc_index(st.array_index, len) + 1],
                               !.array_index = cursor_after(@, array_sign)]
               ELSE IF array_sign = -1
               THEN [s1 EXCEPT !.result = @ \o array[desc_index(st.array_index, len) + 1],
                               !.array_index = cursor_after(@, array_sign)]
               ELSE [s1 EXCEPT !.result = @ \o array[gen_index(len, Draw(rnd, st.nd)) + 1],
                               !.array_index = cursor_after(@, array_sign),
                               !.nd = @ + 1]

\* backreference that always resolves to the first group
backreference_first_group(st, next_ch) ==
  IF 1 \in DOMAIN st.groups
  THEN [st EXCEPT !.result = @ \o st.groups[1]]
  ELSE st

backreference(st, next_ch) ==
  IF DigitVal(next_ch) \in DOMAIN st.groups
  THEN [st EXCEPT !.result = @ \o st.groups[DigitVal(next_ch)]]
  ELSE st

escape_class(p, st, next_ch, rnd, checked) ==
  LET q == check_repeat_spec(p, st.i)
      s1 == [st EXCEPT !.i = q.i]
  IN  IF q.panic THEN [s1 EXCEPT !.panicked = TRUE]
      ELSE IF q.spec # None
      THEN LET r == handle_repeat(next_ch, q.spec[1], rnd, st.nd, checked)
           IN  IF r.panic THEN [s1 EXCEPT !.panicked = TRUE]
               ELSE [s1 EXCEPT !.result = @ \o r.s, !.nd = r.nd]
      ELSE LET e == handle_escape(next_ch, Draw(rnd, st.nd))
           IN  [s1 EXCEPT !.result = @ \o e.s, !.nd = @ + e.used]

bracket(p, st, rnd, rot, checked) ==
  LET cls == extract_char_class(p, st.i)
      q == check_repeat_spec(p, cls.i)
      s1 == [st EXCEPT !.i = q.i]
  IN  IF q.panic THEN [s1 EXCEPT !.panicked = TRUE]
      ELSE LET r == handle_bracket(cls.char_class,
                                   IF q.spec # None THEN q.spec[1] ELSE NoRepeat,
                                   cls.negate, rnd, st.nd, rot, checked)
           IN  IF r.panic THEN [s1 EXCEPT !.panicked = TRUE]
               ELSE [s1 EXCEPT !.result = @ \o r.s, !.nd = r.nd]

\* open_group that stores an empty text for the group it opens
open_group_storing(p, st) ==
  [st EXCEPT !.i = IF Peek(p, st.i) = Some("?") THEN @ + 1 ELSE @,
             !.current_group = Some(st.group_index),
             !.group_stack = Append(@, <<>>),
             !.groups = MapInsert(@, st.group_index, <<>>),
             !.group_index = @ + 1]

open_group(p, st) ==
  [st EXCEPT !.i = IF Peek(p, st.i) = Some("?") THEN @ + 1 ELSE @,
             !.current_group = Some(st.group_index),
             !.group_stack = Append(@, <<>>),
             !.group_index = @ + 1]

\* resolve keeping the last alternative
resolve_last_choice(content) ==
  IF Contains(content, "|")
  THEN LET choices == Split(content, "|") IN choices[Len(choices)]
  ELSE content

\* the text a popped accumulator resolves to: the part before the first '|'
resolve(content) ==
  IF Contains(content, "|") THEN Split(content, "|")[1] ELSE content

\* close_group that dispatches the ')' of a closed group a second time
close_group_rescanning(st) ==
  IF st.current_group # None /\ st.group_stack # <<>>
  THEN LET content == resolve(st.group_stack[Len(st.group_stack)])
       IN  [st EXCEPT !.i = @ - 1,
                      !.group_stack = SubSeq(@, 1, Len(@) - 1),
                      !.groups = MapInsert(@, st.current_group[1], content),
                      !.result = @ \o content,
                      !.current_group = None]
  ELSE st

close_group(st) ==
  IF st.current_group # None /\ st.group_stack # <<>>
  THEN LET content == resolve(st.group_stack[Len(st.group_stack)])
       IN  [st EXCEPT !.group_stack = SubSeq(@, 1, Len(@) - 1),
                      !.groups = MapInsert(@, st.current_group[1], content),
                      !.result = @ \o content,
                      !.current_group = None]
  ELSE st

PushLast(stack, ch) ==
  [stack EXCEPT ![Len(stack)] = Append(@, ch)]

pipe(st) ==
  IF st.group_stack # <<>>
  THEN [st EXCEPT !.group_stack = PushLast(@, "|")]
  ELSE [st EXCEPT !.result = Append(@, "|")]

literal(st, ch) ==
  IF st.current_group # None
  THEN IF st.group_stack # <<>>
       THEN [st EXCEPT !.group_stack = PushLast(@, ch)]
       ELSE st
  ELSE [st EXCEPT !.result = Append(@, ch)]

\* one iteration of the dispatch loop of generate
step(p, array_values, rnd, rot, checked, st) ==
  LET ch == p[st.i]
      s1 == [st EXCEPT !.i = @ + 1, !.steps = @ + 1]
  IN  IF ch = "\\"
      THEN IF s1.i > Len(p) THEN s1
           ELSE LET next_ch == p[s1.i]
                    s2 == [s1 EXCEPT !.i = @ + 1]
                IN  IF next_ch = "i" THEN counter_directive(p, s2, checked)
                    ELSE IF next_ch = "a" THEN pool_directive(p, s2, array_values, rnd)
                    ELSE IF is_digit(next_ch) /\ next_ch # "0"
                    THEN backreference(s2, next_ch)
                    ELSE escape_class(p, s2, next_ch, rnd, checked)
      ELSE IF ch = "[" THEN bracket(p, s1, rnd, rot, checked)
      ELSE IF ch = "(" THEN open_group(p, s1)
      ELSE IF ch = ")" THEN close_group(s1)
      ELSE IF ch = "|" THEN pipe(s1)
      ELSE literal(s1, ch)

RECURSIVE scan(_, _, _, _, _, _)
scan(p, array_values, rnd, rot, checked, st) ==
  IF st.panicked \/ st.i > Len(p) THEN st
  ELSE scan(p, array_values, rnd, rot, checked,
            step(p, array_values, rnd, rot, checked, st))

\* new with the cursor starting at 1
new_cursor_at_one(p, iv, av) ==
  [pattern |-> p, groups |-> <<>>, increment_value |-> iv, direction |-> 1,
   array_values |-> av, array_index |-> 1]

\* RegexGenerator::new
new(p, iv, av) ==
  [pattern |-> p, groups |-> <<>>, increment_value |-> iv, direction |-> 1,
   array_values |-> av, array_index |-> 0]

\* generate starting every call with an empty group table
generate_clearing_groups(self, rnd, rot, checked) ==
  scan(self.pattern, self.array_values, rnd, rot, checked,
       [i |-> 1, result |-> <<>>, group_stack |-> <<>>, current_group |-> None,
        group_index |-> 1, groups |-> <<>>,
        increment_value |-> self.increment_value, direction |-> self.direction,
        array_index |-> self.array_index, nd |-> 0, steps |-> 0,
        panicked |-> FALSE])

\* RegexGenerator::generate on the instance self: the scan state at the end
\* of the call (or at the panic)
generate(self, rnd, rot, checked) ==
  scan(self.pattern, self.array_values, rnd, rot, checked,
       [i |-> 1, result |-> <<>>, group_stack |-> <<>>, current_group |-> None,
        group_index |-> 1, groups |-> self.groups,
        increment_value |-> self.increment_value, direction |-> self.direction,
        array_index |-> self.array_index, nd |-> 0, steps |-> 0,
        panicked |-> FALSE])

\* ---------------------------------------------------------------- inputs
\* \i
P_i ==
  <<"\\", "i">>

\* \i+
P_iplus ==
  <<"\\", "i", "+">>

\* \i-
P_iminus ==
  <<"\\", "i", "-">>

\* \a+
P_aplus ==
  <<"\\", "a", "+">>

\* \a-
P_aminus ==
  <<"\\", "a", "-">>

\* (ab)\+(cd)=\2\+\1
P_groupref ==
  <<"(", "a", "b", ")", "\\", "+", "(", "c", "d", ")", "=", "\\", "2", "\\", "+", "\\", "1">>

\* (x)-\1\1
P_litref ==
  <<"(", "x", ")", "-", "\\", "1", "\\", "1">>

\* (\d)\1
P_dref ==
  <<"(", "\\", "d", ")", "\\", "1">>

\* (a\db)
P_adb ==
  <<"(", "a", "\\", "d", "b", ")">>

\* (\i)\1
P_grp_counter ==
  <<"(", "\\", "i", ")", "\\", "1">>

\* (\a+)\1
P_grp_pool ==
  <<"(", "\\", "a", "+", ")", "\\", "1">>

\* ([ab])\1
P_grp_class ==
  <<"(", "[", "a", "b", "]", ")", "\\", "1">>

\* (\.)\1
P_grp_escape ==
  <<"(", "\\", ".", ")", "\\", "1">>

\* \d{2}
P_d2 ==
  <<"\\", "d", "{", "2", "}">>

\* \s{3}
P_s3 ==
  <<"\\", "s", "{", "3", "}">>

\* \d{x}
P_dx ==
  <<"\\", "d", "{", "x", "}">>

\* \d{}
P_d_empty ==
  <<"\\", "d", "{", "}">>

\* [a]{1,y}
P_a1y ==
  <<"[", "a", "]", "{", "1", ",", "y", "}">>

\* \d{2
P_d_open ==
  <<"\\", "d", "{", "2">>

\* \d{x
P_dx_open ==
  <<"\\", "d", "{", "x">>

\* \d{3,2}
P_d32 ==
  <<"\\", "d", "{", "3", ",", "2", "}">>

\* [a]{2,1}
P_a21 ==
  <<"[", "a", "]", "{", "2", ",", "1", "}">>

\* \i\a+(x)\d{y}
P_fail ==
  <<"\\", "i", "\\", "a", "+", "(", "x", ")", "\\", "d", "{", "y", "}">>

\* \i{:5}
P_i5 ==
  <<"\\", "i", "{", ":", "5", "}">>

\* \i{:2}
P_i2 ==
  <<"\\", "i", "{", ":", "2", "}">>

\* \i-\i
P_iminus_i ==
  <<"\\", "i", "-", "\\", "i">>

\* \i[^ -~]
P_i_empty ==
  <<"\\", "i", "[", "^", " ", "-", "~", "]">>

\* \i{:5}\i
P_i5_i ==
  <<"\\", "i", "{", ":", "5", "}", "\\", "i">>

\* \a
P_a ==
  <<"\\", "a">>

\* \a\a+
P_a_aplus ==
  <<"\\", "a", "\\", "a", "+">>

\* \a+\i+
P_aplus_iplus ==
  <<"\\", "a", "+", "\\", "i", "+">>

\* \a-\i-
P_aminus_iminus ==
  <<"\\", "a", "-", "\\", "i", "-">>

\* [a-c]{3}
P_ac3 ==
  <<"[", "a", "-", "c", "]", "{", "3", "}">>

\* [xa-c]{2}
P_xac2 ==
  <<"[", "x", "a", "-", "c", "]", "{", "2", "}">>

\* [^a-c]{3}
P_nac3 ==
  <<"[", "^", "a", "-", "c", "]", "{", "3", "}">>

\* [^ -(grave)d-~]{2}
P_nabc2 ==
  <<"[", "^", " ", "-", Grave, "d", "-", "~", "]", "{", "2", "}">>

\* \d
P_d ==
  <<"\\", "d">>

\* \d{2,4}
P_d24 ==
  <<"\\", "d", "{", "2", ",", "4", "}">>

\* [ab]
P_ab ==
  <<"[", "a", "b", "]">>

\* [ab]{1,2}
P_ab12 ==
  <<"[", "a", "b", "]", "{", "1", ",", "2", "}">>

\* \w{3}
P_w3 ==
  <<"\\", "w", "{", "3", "}">>

\* [0-9]{3:10}
P_09_3_10 ==
  <<"[", "0", "-", "9", "]", "{", "3", ":", "1", "0", "}">>

\* \d{3:10}
P_d_3_10 ==
  <<"\\", "d", "{", "3", ":", "1", "0", "}">>

\* [a-c]{2:4}
P_ac_2_4 ==
  <<"[", "a", "-", "c", "]", "{", "2", ":", "4", "}">>

\* \d{1:1}
P_d_1_1 ==
  <<"\\", "d", "{", "1", ":", "1", "}">>

\* \d\w\s
P_dws ==
  <<"\\", "d", "\\", "w", "\\", "s">>

\* ((a)b)
P_nested ==
  <<"(", "(", "a", ")", "b", ")">>

\* (a|b|c)
P_alt ==
  <<"(", "a", "|", "b", "|", "c", ")">>

\* (|b)
P_alt_empty ==
  <<"(", "|", "b", ")">>

\* (xy|z)\1
P_alt_ref ==
  <<"(", "x", "y", "|", "z", ")", "\\", "1">>

\* a|b
P_pipe ==
  <<"a", "|", "b">>

\* (a)|b
P_grp_pipe ==
  <<"(", "a", ")", "|", "b">>

\* ((a)b)|c
P_nested_pipe ==
  <<"(", "(", "a", ")", "b", ")", "|", "c">>

\* \1(ab)
P_ref_before ==
  <<"\\", "1", "(", "a", "b", ")">>

\* \a+\a-
P_aplus_aminus ==
  <<"\\", "a", "+", "\\", "a", "-">>

\* [ab without the closing bracket
P_class_open ==
  <<"[", "a", "b">>

\* [ alone
P_class_open_empty ==
  <<"[">>

\* (ab without the closing parenthesis
P_group_open ==
  <<"(", "a", "b">>

\* a{3}
P_a3 ==
  <<"a", "{", "3", "}">>

\* (ab){2}
P_ab2 ==
  <<"(", "a", "b", ")", "{", "2", "}">>

\* [c-a]
P_ca ==
  <<"[", "c", "-", "a", "]">>

\* [-a]
P_hyphen_a ==
  <<"[", "-", "a", "]">>

\* [a-b-d]
P_ab_hyphen_d ==
  <<"[", "a", "-", "b", "-", "d", "]">>

Patterns ==
  {P_i, P_iplus, P_iminus, P_aplus, P_aminus, P_groupref, P_litref, P_dref, P_adb, P_grp_counter, P_grp_pool, P_grp_class, P_grp_escape, P_d2, P_s3, P_dx, P_d_empty, P_a1y, P_d_open, P_dx_open, P_d32, P_a21, P_fail, P_i5, P_i2, P_iminus_i,
   P_i_empty,
   P_i5_i, P_a, P_a_aplus, P_aplus_iplus, P_aminus_iminus, P_ac3,
   P_xac2, P_nac3, P_nabc2, P_d, P_d24, P_ab,
   P_ab12, P_w3, P_09_3_10, P_d_3_10, P_ac_2_4, P_d_1_1,
   P_dws, P_nested, P_alt, P_alt_empty, P_alt_ref,
   P_pipe, P_grp_pipe, P_nested_pipe, P_ref_before, P_aplus_aminus,
   P_class_open, P_class_open_empty, P_group_open, P_a3, P_ab2,
   P_ca, P_hyphen_a, P_ab_hyphen_d}

Seeds ==
  {None, Some(<<"1", "2", "9", "9">>), Some(<<"1", "3", "0", "0">>), Some(<<"9", "9", "8">>), Some(<<"0", "0", "9", "9">>), Some(<<"1", "0", "0">>), Some(<<"1", "0">>), Some(<<"1">>), Some(<<"2", "1", "4", "7", "4", "8", "3", "6", "4", "7">>)}

apple ==
  <<"a", "p", "p", "l", "e">>

banana ==
  <<"b", "a", "n", "a", "n", "a">>

cherry ==
  <<"c", "h", "e", "r", "r", "y">>

Pools ==
  {None, Some(<<apple, banana, cherry>>), Some(<<<<"x">>, <<"y">>>>), Some(<<>>)}

\* ---------------------------------------------------------------- state
VARIABLES
  pattern,          \* self.pattern
  groups,           \* self.groups
  increment_value,  \* self.increment_value
  direction,        \* self.direction
  array_values,     \* self.array_values
  array_index,      \* self.array_index
  checked,          \* TRUE iff the build has integer overflow checks
  seed,             \* the increment_value given to new
  calls,            \* number of generate calls made
  outcome,          \* "none", "ok" (a String was returned) or "panic"
  output,           \* the String returned by the last call
  draws,            \* the sampler draws the last call took
  lengths,          \* the lengths of the Strings returned so far
  steps,            \* the dispatch-loop iterations of the last call
  twin,             \* a second instance built by the same new(..) and fed
                    \* the same sampler results call by call
  pre               \* the fields of self when the last call started

vars ==
  <<pattern, groups, increment_value, direction, array_values, array_index,
    checked, seed, calls, outcome, output, draws, lengths, steps, twin, pre>>

Fields(g, iv, d, ai) ==
  [groups |-> g, increment_value |-> iv, direction |-> d, array_index |-> ai]

\* the fields of an instance together with what its last call did
Observed(g, iv, d, ai, oc, out) ==
  [groups |-> g, increment_value |-> iv, direction |-> d, array_index |-> ai,
   outcome |-> oc, output |-> out]

\* the default seed and pool of the instances whose pattern has no \i or \a
DefaultSeed ==
  Some(<<"1", "2", "9", "9">>)

DefaultPool ==
  Some(<<apple, banana, cherry>>)

HasDirective(p, c) ==
  \E k \in 1..(Len(p) - 1) : p[k] = "\\" /\ p[k + 1] = c

\* a pattern without counter, pool directive or group
Stateless(p) ==
  ~HasDirective(p, "i") /\ ~HasDirective(p, "a") /\ ~Contains(p, "(")

\* a pattern whose scan does integer arithmetic that can overflow
UsesArithmetic(p) ==
  HasDirective(p, "i") \/ Contains(p, ":")

\* the constructor arguments and builds explored: every seed with a pattern
\* that has a counter directive, every pool with a pattern that has a pool
\* directive, both builds with a pattern whose scan does overflowing
\* arithmetic; the other patterns get the default seed and pool (and also the
\* absent ones when the pattern has state)
Configs ==
  {cfg \in [p : Patterns, iv : Seeds, av : Pools, chk : BOOLEAN] :
     /\ \/ HasDirective(cfg.p, "i")
        \/ cfg.iv = DefaultSeed
        \/ (cfg.iv = None /\ ~Stateless(cfg.p))
     /\ \/ HasDirective(cfg.p, "a")
        \/ cfg.av = DefaultPool
        \/ (cfg.av = None /\ ~Stateless(cfg.p))
     /\ (UsesArithmetic(cfg.p) \/ cfg.chk)}

\* the number of calls explored on an instance with the pattern p
CallBound(p) ==
  IF Stateless(p) THEN MaxSamplingCalls ELSE MaxCalls

ZeroDraws ==
  [k \in 1..NDraws |-> 0]

\* the sampler results that can make a difference to a call: a call that
\* takes no draw when fed zeros takes no draw at all
Rnds(self, chk) ==
  IF generate(self, ZeroDraws, 0, chk).nd = 0
  THEN {ZeroDraws}
  ELSE [1..NDraws -> 0..(MaxDraw - 1)]

\* the set orders that can make a difference to a call
Rots(p) ==
  IF Contains(p, "[") THEN 0..(MaxRot - 1) ELSE {0}

\* the set orders of the second instance: its HashSet is another object, so
\* its order is independent of the first one's; explored for the class
\* patterns of at most MaxTwinPattern characters, equal to rot for the longer
TwinRots(p, rot) ==
  IF Len(p) <= MaxTwinPattern THEN Rots(p) ELSE {rot}

Init ==
  \E cfg \in Configs :
    LET self == new(cfg.p, cfg.iv, cfg.av)
    IN  /\ pattern = self.pattern
        /\ groups = self.groups
        /\ increment_value = self.increment_value
        /\ direction = self.direction
        /\ array_values = self.array_values
        /\ array_index = self.array_index
        /\ checked = cfg.chk
        /\ seed = cfg.iv
        /\ calls = 0
        /\ outcome = "none"
        /\ output = <<>>
        /\ draws = <<>>
        /\ lengths = {}
        /\ steps = 0
        /\ twin = Observed(self.groups, self.increment_value, self.direction,
                            self.array_index, "none", <<>>)
        /\ pre = Fields(self.groups, self.increment_value, self.direction,
                        self.array_index)

\* the second instance in the current state
TwinSelf ==
  [pattern |-> pattern, groups |-> twin.groups,
   increment_value |-> twin.increment_value, direction |-> twin.direction,
   array_values |-> array_values, array_index |-> twin.array_index]

\* the instance in the current state
Self ==
  [pattern |-> pattern, groups |-> groups, increment_value |-> increment_value,
   direction |-> direction, array_values |-> array_values,
   array_index |-> array_index]

\* the state after a call: st is the scan state at the end of the call on
\* the instance, tw the one of the call on the second instance
Commit(st, tw, rnd) ==
  /\ \A k \in (st.nd + 1)..NDraws : rnd[k] = 0
  /\ steps' = st.steps
  /\ twin' = Observed(tw.groups, tw.increment_value, tw.direction,
                      tw.array_index,
                      IF tw.panicked THEN "panic" ELSE "ok",
                      IF tw.panicked THEN <<>> ELSE tw.result)
  /\ groups' = st.groups
  /\ increment_value' = st.increment_value
  /\ direction' = st.direction
  /\ array_index' = st.array_index
  /\ outcome' = IF st.panicked THEN "panic" ELSE "ok"
  /\ output' = IF st.panicked THEN <<>> ELSE st.result
  /\ draws' = [k \in 1..st.nd |-> Draw(rnd, k - 1)]
  /\ lengths' = IF st.panicked THEN lengths
                ELSE lengths \cup {Len(st.result)}

\* the call on the second instance, fed the same sampler results: the same
\* scan when it is in the same state and its set has the same order
WithTwin(st, rnd, rot, twin_rot) ==
  Commit(st,
         IF twin_rot = rot /\ TwinSelf = Self THEN st
         ELSE generate(TwinSelf, rnd, twin_rot, checked),
         rnd)

Generate ==
  /\ calls < CallBound(pattern)
  /\ \E rnd \in Rnds(Self, checked), rot \in Rots(pattern) :
     \E twin_rot \in TwinRots(pattern, rot) :
       WithTwin(generate(Self, rnd, rot, checked), rnd, rot, twin_rot)
  /\ pre' = Fields(groups, increment_value, direction, array_index)
  /\ calls' = calls + 1
  /\ UNCHANGED <<pattern, array_values, checked, seed>>

Next ==
  Generate

Spec ==
  Init /\ [][Next]_vars

\* ---------------------------------------------------------------- properties
\* decimal rendering of a natural number, digit by digit
NumDigits(n) ==
  CHOOSE d \in 1..10 : (d = 10 \/ n < Pow10(d)) /\ (d = 1 \/ n >= Pow10(d - 1))

Decimal(n) ==
  [k \in 1..NumDigits(n) |-> Digits[((n \div Pow10(NumDigits(n) - k)) % 10) + 1]]

\* s left-padded with zeros to w characters, never truncated
ZeroPad(s, w) ==
  [k \in 1..(IF w > Len(s) THEN w - Len(s) ELSE 0) |-> "0"] \o s

AllDigits(s) ==
  s # <<>> /\ \A k \in 1..Len(s) : is_digit(s[k])

\* a decimal digit string without leading zeros
PlainNumber(s) ==
  AllDigits(s) /\ (Len(s) = 1 \/ s[1] # "0")

I32Max ==
  2147483647

\* every call so far returned a String
Returned ==
  calls > 0 /\ outcome = "ok"

\* C1: with a seed that is a decimal digit string of value v without leading
\* zeros and no pool, the k-th call returns the decimal rendering of v + k for
\* the patterns \i and \i+ (while v + k fits the 32-bit counter), and of v - k
\* for \i- while v - k is non-negative and has as many digits as the seed.
C1_CounterSequence ==
  (/\ Returned
   /\ array_values = None
   /\ seed # None
   /\ PlainNumber(seed[1]))
  => LET v == DecVal(seed[1])
     IN  /\ (pattern \in {P_i, P_iplus} /\ v <= I32Max - calls)
              => output = Decimal(v + calls)
         /\ (/\ pattern = P_iminus
             /\ v - calls >= 0
             /\ Len(Decimal(v - calls)) = Len(seed[1]))
              => output = Decimal(v - calls)

C1_Witness ==
  /\ pattern = P_i
  /\ seed = Some(<<"1", "2", "9", "9">>)
  /\ array_values = None
  /\ calls = 5
  /\ output = <<"1", "3", "0", "4">>

\* C2: with a non-empty pool P of length L, the k-th call (k = 0, 1, ...) of
\* \a+ returns P[k mod L] and of \a- returns P[L - 1 - (k mod L)].
C2_PoolSequence ==
  (Returned /\ array_values # None /\ Len(array_values[1]) > 0)
  => LET P == array_values[1]
         L == Len(P)
         k == calls - 1
     IN  /\ pattern = P_aplus => output = P[(k % L) + 1]
         /\ pattern = P_aminus => output = P[(L - 1 - (k % L)) + 1]

C2_Witness ==
  /\ pattern = P_aminus
  /\ array_values = Some(<<apple, banana, cherry>>)
  /\ calls = 5
  /\ output = banana

\* C3: in a pattern whose groups are not nested and hold only literal
\* characters, each group's text is emitted at the group's position and a later
\* backreference emits the text of its group: (ab)\+(cd)=\2\+\1 always yields
\* ab+cd=cd+ab and (x)-\1\1 always yields x-xx.
C3_LiteralGroups ==
  Returned
  => /\ pattern = P_groupref
          => /\ groups[1] = <<"a", "b">>
             /\ groups[2] = <<"c", "d">>
             /\ output = groups[1] \o <<"+">> \o groups[2] \o <<"=">>
                         \o groups[2] \o <<"+">> \o groups[1]
     /\ pattern = P_litref
          => /\ groups[1] = <<"x">>
             /\ output = <<"x", "-", "x", "x">>

C3_Witness ==
  /\ pattern = P_groupref
  /\ calls = 3
  /\ output = <<"a", "b", "+", "c", "d", "=", "c", "d", "+", "a", "b">>

\* C4: while a group is open, the text of every construct scanned inside it
\* goes to the group's accumulator, so it is captured and emitted in pattern
\* order: (\d)\1 yields two identical digits, (a\db) yields a, a digit, b, and
\* a group holding a counter, a pool directive, a class or a literal escape
\* captures the text of that construct.
C4_ConstructsJoinOpenGroup ==
  Returned
  => /\ pattern = P_dref
          => /\ Len(output) = 2
             /\ is_digit(output[1])
             /\ output[2] = output[1]
     /\ pattern = P_adb
          => /\ Len(output) = 3
             /\ output[1] = "a"
             /\ is_digit(output[2])
             /\ output[3] = "b"
     /\ pattern \in {P_grp_counter, P_grp_pool, P_grp_class, P_grp_escape}
          => output = groups[1] \o groups[1]

\* C5: the positions of a quantified escape class are sampled independently:
\* \d{2} and \s{3} take one draw per position, and the character at each
\* position is the one its own draw selects.
C5_IndependentPositions ==
  Returned
  => /\ pattern = P_d2
          => /\ Len(draws) = 2
             /\ output = handle_escape("d", draws[1]).s \o handle_escape("d", draws[2]).s
     /\ pattern = P_s3
          => /\ Len(draws) = 3
             /\ output = handle_escape("s", draws[1]).s \o handle_escape("s", draws[2]).s
                         \o handle_escape("s", draws[3]).s

\* the patterns of the model whose quantifier is malformed: a non-numeric
\* bound, an empty bound, a missing closing brace, or n > m
MalformedQuantifierPatterns ==
  {P_dx, P_d_empty, P_a1y, P_d_open, P_dx_open, P_d32, P_a21, P_fail}

\* C6: a malformed quantifier after a class or escape never makes generate
\* panic.
C6_MalformedQuantifierNoPanic ==
  (calls > 0 /\ pattern \in MalformedQuantifierPatterns) => outcome # "panic"

\* the patterns of the model on which generate fails: a malformed quantifier,
\* n > m, or a class whose alphabet is empty
FailingPatterns ==
  MalformedQuantifierPatterns \cup {P_i_empty}

\* C7: when a generate call fails on a malformed quantifier, on n > m or on an
\* empty alphabet, counterValue, counterDirection, poolCursor and captureTable
\* are what they were when the call started.
C7_FailureKeepsState ==
  (outcome = "panic" /\ pattern \in FailingPatterns)
  => Fields(groups, increment_value, direction, array_index) = pre

\* the pattern \i{:W} of the model for the width w
WidthPattern(w) ==
  IF w = 5 THEN P_i5 ELSE P_i2

\* C8: with a digit-string seed of value v and the pattern \i{:W}, the k-th
\* call returns the decimal rendering of v + k left-padded with zeros to W
\* characters, never truncated, and stores that padded string (while v + k
\* fits the 32-bit counter).
C8_PaddedCounter ==
  (/\ Returned
   /\ seed # None
   /\ AllDigits(seed[1])
   /\ DecVal(seed[1]) <= I32Max - calls)
  => \A w \in {2, 5} :
       pattern = WidthPattern(w)
       => /\ output = ZeroPad(Decimal(DecVal(seed[1]) + calls), w)
          /\ increment_value = Some(output)

C8_Witness ==
  /\ pattern = P_i5
  /\ seed = Some(<<"9", "9", "8">>)
  /\ calls = 5
  /\ output = <<"0", "1", "0", "0", "3">>
  /\ increment_value = Some(<<"0", "1", "0", "0", "3">>)

\* C9: a \i directive without a width renders the stepped integer zero-padded
\* to the length of the digit run it was parsed from.
C9_PadToDigitRun ==
  (/\ Returned
   /\ pre.increment_value # None
   /\ AllDigits(pre.increment_value[1]))
  => LET run == pre.increment_value[1]
         v == DecVal(run)
     IN  /\ (pattern \in {P_i, P_iplus} /\ v < I32Max)
              => output = ZeroPad(Decimal(v + 1), Len(run))
         /\ (pattern = P_iminus /\ v > 0)
              => output = ZeroPad(Decimal(v - 1), Len(run))

\* C10: a \i directive without a sign keeps the direction of the most recently
\* scanned signed directive: with the pattern \i-\i both directives of every
\* call step downward.
C10_UnsignedKeepsDirection ==
  (/\ Returned
   /\ pattern = P_iminus_i
   /\ seed # None
   /\ PlainNumber(seed[1])
   /\ DecVal(seed[1]) - 2 * calls >= 0)
  => LET v == DecVal(seed[1])
     IN  /\ output = Decimal(v - 2 * calls + 1) \o Decimal(v - 2 * calls)
         /\ direction = -1

\* C11: a width given as \i{:W} stays in force for every later \i directive
\* that gives no width: with the pattern \i{:5}\i both directives of every
\* call are rendered five characters wide.
C11_WidthPersists ==
  (/\ Returned
   /\ pattern = P_i5_i
   /\ seed # None
   /\ AllDigits(seed[1])
   /\ DecVal(seed[1]) <= I32Max - 2 * calls)
  => LET v == DecVal(seed[1])
     IN  output = ZeroPad(Decimal(v + 2 * calls - 1), 5)
                  \o ZeroPad(Decimal(v + 2 * calls), 5)

\* the members of a pool
Members(P) ==
  {P[k] : k \in 1..Len(P)}

\* C12: with a non-empty pool the pattern \a returns a member of the pool and
\* leaves poolCursor unchanged, so an unsigned access in front of \a+ does not
\* shift the sequence \a+ produces.
C12_RandomAccessKeepsCursor ==
  (Returned /\ array_values # None /\ Len(array_values[1]) > 0)
  => LET P == array_values[1]
         L == Len(P)
     IN  /\ pattern = P_a
              => /\ output \in Members(P)
                 /\ array_index = pre.array_index
                 /\ array_index = 0
         /\ pattern = P_a_aplus
              => /\ \E x \in Members(P) : output = x \o P[((calls - 1) % L) + 1]
                 /\ array_index = calls

C12_Witness ==
  /\ pattern = P_a_aplus
  /\ array_values = Some(<<apple, banana, cherry>>)
  /\ calls = 2
  /\ output = cherry \o banana
  /\ array_index = 2

\* C13: counter and pool cursor advance independently, once per directive and
\* call: with pool P of length L and a digit-string seed of value v the k-th
\* call (k = 0, 1, ...) of \a+\i+ returns P[k mod L] followed by v + k + 1
\* (while it fits the 32-bit counter) and of \a-\i- returns P[L - 1 - (k mod L)]
\* followed by v - k - 1 (while it is non-negative).
C13_CounterAndPoolIndependent ==
  (/\ Returned
   /\ array_values # None
   /\ Len(array_values[1]) > 0
   /\ seed # None
   /\ AllDigits(seed[1]))
  => LET P == array_values[1]
         L == Len(P)
         v == DecVal(seed[1])
         k == calls - 1
     IN  /\ (pattern = P_aplus_iplus /\ v <= I32Max - calls)
              => /\ output = P[(k % L) + 1] \o Decimal(v + k + 1)
                 /\ array_index = calls
         /\ (pattern = P_aminus_iminus /\ v - k - 1 >= 0)
              => /\ output = P[(L - 1 - (k % L)) + 1] \o Decimal(v - k - 1)
                 /\ array_index = calls

C13_Witness ==
  /\ pattern = P_aplus_iplus
  /\ seed = Some(<<"1", "2", "9", "9">>)
  /\ array_values = Some(<<apple, banana, cherry>>)
  /\ calls = 5
  /\ output = banana \o <<"1", "3", "0", "4">>

\* every character of s belongs to the set S
AllIn(s, S) ==
  \A k \in 1..Len(s) : s[k] \in S

\* C14: a non-negated class with the quantifier {n} yields exactly n
\* characters, each from the declared set (the listed characters and the
\* characters of every range): [a-c]{3} yields 3 characters of {a, b, c} and
\* [xa-c]{2} yields 2 characters of {x, a, b, c}.
C14_ClassWithCount ==
  Returned
  => /\ pattern = P_ac3
          => Len(output) = 3 /\ AllIn(output, {"a", "b", "c"})
     /\ pattern = P_xac2
          => Len(output) = 2 /\ AllIn(output, {"x", "a", "b", "c"})

C14_Witness ==
  /\ pattern = P_ac3
  /\ calls = 1
  /\ output = <<"a", "c", "b">>

\* a character with a code in 32..126
IsPrintable(c) ==
  \E k \in 32..126 : Printable[k - 31] = c

\* C15: a negated class with a non-empty complement and the quantifier {n}
\* yields exactly n characters, each with a code in 32..126 and none from the
\* declared set: [^a-c]{3} never yields a, b or c, and the class that declares
\* every printable character but a, b, c yields only those three.
C15_NegatedClass ==
  Returned
  => /\ pattern = P_nac3
          => /\ Len(output) = 3
             /\ \A k \in 1..3 : IsPrintable(output[k]) /\ output[k] \notin {"a", "b", "c"}
     /\ pattern = P_nabc2
          => /\ Len(output) = 2
             /\ \A k \in 1..2 :
                  /\ IsPrintable(output[k])
                  /\ output[k] \notin (CharRange(" ", Grave) \cup CharRange("d", "~"))

C15_Witness ==
  /\ pattern = P_nabc2
  /\ calls = 1
  /\ output = <<"a", "c">>

DigitChars ==
  {Digits[k] : k \in 1..10}

\* C16: a class or escape without a {...} suffix yields exactly one character,
\* with {n} exactly n, with {n,m} (n <= m) between n and m, every count of
\* the interval being reached, and every character is from its alphabet.
C16_RepeatCounts ==
  Returned
  => /\ pattern = P_d => Len(output) = 1 /\ AllIn(output, DigitChars)
     /\ pattern = P_ab => Len(output) = 1 /\ AllIn(output, {"a", "b"})
     /\ pattern = P_d2 => Len(output) = 2 /\ AllIn(output, DigitChars)
     /\ pattern = P_w3
          => Len(output) = 3 /\ AllIn(output, {WordSet[k] : k \in 1..Len(WordSet)})
     /\ pattern = P_d24
          => /\ Len(output) \in 2..4
             /\ AllIn(output, DigitChars)
             /\ lengths \subseteq 2..4
     /\ pattern = P_ab12
          => /\ Len(output) \in 1..2
             /\ AllIn(output, {"a", "b"})
             /\ lengths \subseteq 1..2

C16_Witness ==
  /\ pattern = P_d24
  /\ calls = 3
  /\ lengths = {2, 3, 4}
  /\ Len(output) = 3

\* the patterns of the model with a numeric-width quantifier {n:m}, 1 <= n <= m
NumericWidthCases ==
  {<<P_09_3_10, 3, 10>>, <<P_d_3_10, 3, 10>>, <<P_ac_2_4, 2, 4>>, <<P_d_1_1, 1, 1>>}

\* C17: a quantifier {n:m} with 1 <= n <= m after a class or an escape yields
\* exactly m decimal digits: m - n zeros, then an n-digit number whose first
\* digit is not 0, whatever the class or escape is.
C17_NumericWidth ==
  Returned
  => \A c \in NumericWidthCases :
       pattern = c[1]
       => LET n == c[2]
              w == c[3]
          IN  /\ Len(output) = w
              /\ AllIn(output, DigitChars)
              /\ \A k \in 1..(w - n) : output[k] = "0"
              /\ output[w - n + 1] # "0"

C17_Witness ==
  /\ pattern = P_09_3_10
  /\ calls = 1
  /\ output = <<"0", "0", "0", "0", "0", "0", "0", "9", "9", "9">>

Letters ==
  CharRange("A", "Z") \cup CharRange("a", "z")

Whitespace ==
  {" ", "\t", "\n", "\r"}

C19_NestedGroups ==
  (Returned /\ pattern = P_nested)
  => /\ output = <<"a", "b">>
     /\ 2 \in DOMAIN groups /\ groups[2] = <<"a">>
     /\ 1 \in DOMAIN groups /\ groups[1] = <<"a", "b">>

\* C20: a closed group whose text contains '|' resolves to the text before
\* the first '|' on every call: (a|b|c) outputs a and stores a as group 1,
\* (|b) outputs the empty string, and (xy|z)\1 outputs xy twice.
C20_FirstAlternative ==
  Returned
  => /\ pattern = P_alt
          => output = <<"a">> /\ 1 \in DOMAIN groups /\ groups[1] = <<"a">>
     /\ pattern = P_alt_empty
          => output = <<>> /\ 1 \in DOMAIN groups /\ groups[1] = <<>>
     /\ pattern = P_alt_ref
          => output = <<"x", "y", "x", "y">> /\ groups[1] = <<"x", "y">>

C20_Witness ==
  /\ pattern = P_alt
  /\ calls = 2
  /\ outcome = "ok"
  /\ output = <<"a">>
  /\ groups[1] = <<"a">>

\* C21: a '|' scanned when no group is open (every '(' before it has been
\* matched by a ')') is emitted as a literal '|', also after nested groups:
\* a|b and (a)|b yield a|b, and ((a)b)|c yields ab|c.
C21_TopLevelPipe ==
  Returned
  => /\ pattern = P_pipe => output = <<"a", "|", "b">>
     /\ pattern = P_grp_pipe => output = <<"a", "|", "b">>
     /\ pattern = P_nested_pipe => output = <<"a", "b", "|", "c">>

\* C22: generate never removes an entry of the group table, and \k emits
\* nothing while group k has never been stored and the last stored text
\* otherwise, also when an earlier call stored it: \1(ab) returns ab on the
\* first call and abab on every later call.
C22_GroupTablePersists ==
  /\ calls > 0 => DOMAIN pre.groups \subseteq DOMAIN groups
  /\ (Returned /\ pattern = P_ref_before)
       => output = IF calls = 1 THEN <<"a", "b">> ELSE <<"a", "b", "a", "b">>

C22_Witness ==
  /\ pattern = P_ref_before
  /\ calls = 2
  /\ pre.groups = (1 :> <<"a", "b">>)
  /\ output = <<"a", "b", "a", "b">>

\* the patterns made of counter directives only, with their number of
\* directives
CounterOnlyCases ==
  {<<P_i, 1>>, <<P_iplus, 1>>, <<P_iminus, 1>>, <<P_i5, 1>>, <<P_i2, 1>>,
   <<P_iminus_i, 2>>, <<P_i5_i, 2>>}

\* C23: without an initial counter value every \i directive, with any sign
\* and any {:W} suffix (consumed, not echoed), contributes exactly the text 0,
\* and the counter value is still absent after any number of calls.
C23_NoSeedPlaceholder ==
  seed = None
  => /\ increment_value = None
     /\ Returned
          => \A c \in CounterOnlyCases :
               pattern = c[1] => output = [k \in 1..c[2] |-> "0"]

C23_Witness ==
  /\ pattern = P_i5_i
  /\ seed = None
  /\ calls = 2
  /\ output = <<"0", "0">>
  /\ increment_value = None

\* the patterns made of pool directives only
PoolOnlyPatterns ==
  {P_a, P_aplus, P_aminus, P_a_aplus, P_aplus_aminus}

\* C24: without a pool every \a, \a+ and \a- directive emits nothing (the sign
\* is consumed, not echoed) and the cursor is unchanged.
C24_NoPoolEmitsNothing ==
  array_values = None
  => /\ array_index = 0
     /\ (Returned /\ pattern \in PoolOnlyPatterns) => output = <<>>

C24_Witness ==
  /\ pattern = P_aplus_aminus
  /\ array_values = None
  /\ calls = 2
  /\ outcome = "ok"
  /\ output = <<>>
  /\ array_index = 0

\* C25: with a pool of length zero every \a, \a+ and \a- directive emits
\* nothing: generate completes normally and the directive contributes the
\* empty string.
C25_EmptyPoolEmitsNothing ==
  (array_values = Some(<<>>) /\ calls > 0 /\ pattern \in PoolOnlyPatterns)
  => outcome = "ok" /\ output = <<>>

\* the patterns of the model in which a '[' or a '(' is never closed
UnterminatedPatterns ==
  {P_class_open, P_class_open_empty, P_group_open}

\* C26: for every pattern in which a '[' has no matching ']' or a '(' has no
\* matching ')', generate returns normally: the class body or group body
\* extends to the end of the pattern.
C26_UnterminatedReturns ==
  (calls > 0 /\ pattern \in UnterminatedPatterns) => outcome = "ok"

\* C27: two generators constructed with the same pattern, seed and pool and
\* fed the same sequence of sampler results return equal outputs on every
\* call and are in equal states after it.
C27_TwinAgrees ==
  twin = Observed(groups, increment_value, direction, array_index, outcome, output)

\* C28: every generate call that does not fail terminates, and each iteration
\* of the dispatch loop consumes at least one pattern character, so the
\* number of iterations is at most the pattern length.
C28_ScanBounded ==
  Returned => steps \in 1..Len(pattern)

C28_Witness ==
  /\ pattern = P_ac3
  /\ Returned
  /\ steps = 1
  /\ Len(output) = 3

\* C29: a {n} suffix yields exactly n repetitions of the previous element
\* whatever it is, a plain literal or a closed group as well as a class or an
\* escape: a{3} yields aaa and (ab){2} yields abab.
C29_QuantifierOnAnyElement ==
  Returned
  => /\ pattern = P_a3 => output = <<"a", "a", "a">>
     /\ pattern = P_ab2 => output = <<"a", "b", "a", "b">>

\* the number of \a+ and \a- directives of the pattern p
SignedCount(p) ==
  Cardinality({k \in 1..(Len(p) - 2) :
                 p[k] = "\\" /\ p[k + 1] = "a" /\ p[k + 2] \in {"+", "-"}})

\* C30: with a non-empty pool the cursor equals the number of signed pool
\* directives (\a+ and \a- together) executed since construction, and an
\* access uses the cursor value before its increment: with a pool of three
\* the first call on \a+\a- emits the first element, then the second.
C30_CursorCountsSignedAccesses ==
  (array_values # None /\ array_values # Some(<<>>) /\ pattern \in PoolOnlyPatterns)
  => /\ array_index = calls * SignedCount(pattern)
     /\ (pattern = P_aplus_aminus /\ array_values = DefaultPool /\ calls = 1)
          => output = apple \o banana

C30_Witness ==
  /\ pattern = P_aplus_aminus
  /\ array_values = DefaultPool
  /\ calls = 1
  /\ output = apple \o banana
  /\ array_index = 2

\* the decimal rendering of an integer, with a minus sign when negative
SignedDecimal(n) ==
  IF n < 0 THEN <<"-">> \o Decimal(0 - n) ELSE Decimal(n)

\* C31: with a descending counter the successive \i- outputs are a strictly
\* decreasing integer sequence stepping by one, also across zero: seed 1 with
\* the pattern \i- yields 0, -1, -2, -3 on successive calls.
C31_DescendsAcrossZero ==
  (Returned /\ pattern = P_iminus /\ seed = Some(<<"1">>))
  => output = SignedDecimal(1 - calls)

\* the set a class pattern of the model admits: the class starts after the
\* opening bracket
Admitted(p) ==
  extract_char_class(p, 2).char_class

\* C32: for every range token a-b of a class both endpoints are admitted,
\* whatever the order of their codes ([c-a] admits c and a), and a '-' with no
\* preceding range start (first in the class, or directly after a completed
\* range) is admitted as a literal hyphen.
C32_RangeTokens ==
  Returned
  => /\ pattern = P_ca => {"c", "a"} \subseteq Admitted(pattern)
     /\ pattern = P_hyphen_a => Admitted(pattern) = {"-", "a"}
     /\ pattern = P_ab_hyphen_d => Admitted(pattern) = {"a", "b", "-", "d"}

\* C33: a counter step never wraps or aborts on 32-bit arithmetic: from the
\* stored digit run 2147483647 an ascending \i returns 2147483648.
C33_NoWrapNoAbort ==
  (calls = 1 /\ pattern = P_i /\ seed = Some(I32MaxDigits))
  => /\ outcome = "ok"
     /\ output = <<"2", "1", "4", "7", "4", "8", "3", "6", "4", "8">>

\* C34: generate never changes the pattern or the pool; a call whose pattern
\* has no \i leaves the counter value and the direction unchanged, a call
\* whose pattern has no \a+ or \a- leaves the cursor unchanged, and a call
\* whose pattern closes no group leaves the group table unchanged.
C34_Frame ==
  [][/\ pattern' = pattern
     /\ array_values' = array_values
     /\ ~HasDirective(pattern, "i")
          => increment_value' = increment_value /\ direction' = direction
     /\ SignedCount(pattern) = 0 => array_index' = array_index
     /\ ~Contains(pattern, ")") => groups' = groups]_vars

C34_Witness ==
  /\ pattern = P_aplus
  /\ array_values = DefaultPool
  /\ calls = 2
  /\ outcome = "ok"
  /\ array_index = 2
  /\ increment_value = DefaultSeed
  /\ direction = 1
  /\ groups = <<>>

====
